---------------------------- MODULE Spec2Model ----------------------------
(***************************************************************************)
(* A model of the two wire-protocol clients of saba-chan-modules:          *)
(*   - minecraft/lifecycle.py   MinecraftPing (Server List Ping) and       *)
(*                              status(), its caller;                      *)
(*   - minecraft/daemon_rcon.py rcon_command (direct-socket console        *)
(*                              client), daemon_rcon_command and           *)
(*                              DaemonRconClient (the session object).     *)
(* Bytes are integers 0..255 and byte strings are sequences of them.       *)
(* Python integers are unbounded; the ones the varint code computes do not *)
(* fit TLC's 32-bit integers, so they are kept as two limbs.               *)
(***************************************************************************)
EXTENDS Integers, Sequences, FiniteSets, TLC

VARIABLES
    cOp, cIn, cOut,                 \* codec harness: operation, input, result
    rPc, rSock, rSent, rRx, rRxPos, \* rcon_command: position, socket, wire
    rBuf, rSize, rPktStart, rRecvs, \* _read_packet: buffer, size, bookkeeping
    rStage, rArgs,                  \* which loop is running; password, command
    rAuthPkt, rCmdPkt, rOut,        \* frames read, outcome of the call
    serverPolicy,                   \* the console server accepts or rejects
    sConnected, sRet,               \* DaemonRconClient: _connected, last return
    sLog,                           \* the calls made on it, in order
    pPc, pSock, pArgs, pSent,       \* MinecraftPing.ping: position, socket, wire
    pRx, pRxPos, pData, pRet,       \* peer's bytes, bytes consumed, data, result
    stPc, stConfig, stRet,          \* status(): position, config, result
    fPc, fDefaults, fFile,          \* properties: phase, DEFAULT_PROPERTIES, file
    fLast, fRead                    \* last write()/update() call, last read()

codecVars == <<cOp, cIn, cOut>>
rconVars == <<rPc, rSock, rSent, rRx, rRxPos, rBuf, rSize, rPktStart, rRecvs,
              rStage, rArgs, rAuthPkt, rCmdPkt, rOut, serverPolicy>>
sessVars == <<sConnected, sRet, sLog>>
pingVars == <<pPc, pSock, pArgs, pSent, pRx, pRxPos, pData, pRet>>
statusVars == <<stPc, stConfig, stRet>>
propsVars == <<fPc, fDefaults, fFile, fLast, fRead>>
vars == <<codecVars, rconVars, sessVars, pingVars, statusVars, propsVars>>

(***************************************************************************)
(* Python integers as two limbs: the value is hi * 2^28 + lo with          *)
(* 0 <= lo < 2^28.  The limb is four 7-bit groups wide, so a varint group  *)
(* never straddles the two limbs.                                          *)
(***************************************************************************)
Limb == 2^28

WNorm(hi, lo) == [hi |-> hi + (lo \div Limb), lo |-> lo % Limb]

WInt(n) == WNorm(0, n)

WFits(w) == w.hi >= -8 /\ w.hi <= 7

WToInt(w) == w.hi * Limb + w.lo

WIsZero(w) == w.hi = 0 /\ w.lo = 0

\* value += 1 << 32        (2^32 = 16 * 2^28)
WAdd2p32(w) == [hi |-> w.hi + 16, lo |-> w.lo]

\* result -= 1 << 32
WSub2p32(w) == [hi |-> w.hi - 16, lo |-> w.lo]

\* value >>= 7  (floor division by 128)
WShr7(w) == [hi |-> w.hi \div 128,
             lo |-> (w.hi % 128) * (Limb \div 128) + (w.lo \div 128)]

\* a < b
WLess(a, b) == a.hi < b.hi \/ (a.hi = b.hi /\ a.lo < b.lo)

\* w + n for a small integer n
WAddInt(w, n) == WNorm(w.hi, w.lo + n)

\* x | y on naturals
RECURSIVE BitOr(_, _)
BitOr(x, y) ==
    IF x = 0 THEN y
    ELSE IF y = 0 THEN x
    ELSE (IF x % 2 = 1 \/ y % 2 = 1 THEN 1 ELSE 0) + 2 * BitOr(x \div 2, y \div 2)

\* result |= group << shift, shift a multiple of 7
WOrShl(w, group, shift) ==
    IF shift < 28
    THEN [hi |-> w.hi, lo |-> BitOr(w.lo, group * 2^shift)]
    ELSE [hi |-> BitOr(w.hi, group * 2^(shift - 28)), lo |-> w.lo]

\* result & (1 << 31)      (bit 31 is bit 3 of the high limb)
WBit31(w) == (w.hi \div 8) % 2 = 1

(***************************************************************************)
(* MinecraftPing._encode_varint                                            *)
(***************************************************************************)
RECURSIVE EncodeLoopPlain(_, _)
EncodeLoopPlain(value, result) ==
    LET byte == value.lo % 128
        rest == WShr7(value)
    IN  IF WIsZero(rest)
        THEN Append(result, byte)
        ELSE EncodeLoopPlain(rest, Append(result, byte))

\* the encoder with the continuation bit forgotten
EncodeVarintNoCont(v) ==
    EncodeLoopPlain(IF v < 0 THEN WAdd2p32(WInt(v)) ELSE WInt(v), <<>>)

RECURSIVE EncodeLoop(_, _)
EncodeLoop(value, result) ==
    LET low == value.lo % 128                               \* value & 0x7F
        rest == WShr7(value)                                \* value >>= 7
        byte == IF ~WIsZero(rest) THEN low + 128 ELSE low   \* byte |= 0x80
    IN  IF WIsZero(rest)
        THEN Append(result, byte)
        ELSE EncodeLoop(rest, Append(result, byte))

EncodeVarint(v) ==
    EncodeLoop(IF v < 0 THEN WAdd2p32(WInt(v)) ELSE WInt(v), <<>>)

\* _encode_varint on a Python integer of any size above -2^32
EncodeVarintWide(value) ==
    EncodeLoop(IF WLess(value, WInt(0)) THEN WAdd2p32(value) ELSE value, <<>>)

(***************************************************************************)
(* MinecraftPing._read_varint.  The result is [err, value, offset]; err    *)
(* stands for ValueError("VarInt too short").  data[offset] of the source  *)
(* is data[offset + 1] here, sequences being 1-based.                      *)
(***************************************************************************)
VarintErr == [err |-> TRUE, value |-> WInt(0), offset |-> 0]

RECURSIVE ReadLoop(_, _, _, _, _)
ReadLoop(data, offset, result, shift, signed) ==
    IF offset >= Len(data)
    THEN VarintErr
    ELSE LET byte == data[offset + 1]
             r == WOrShl(result, byte % 128, shift)
         IN  IF byte < 128
             THEN [err |-> FALSE,
                   value |-> IF signed /\ WBit31(r) THEN WSub2p32(r) ELSE r,
                   offset |-> offset + 1]
             ELSE ReadLoop(data, offset + 1, r, shift + 7, signed)

\* the decoder with the sign extension forgotten
ReadVarintNoSign(data, offset) == ReadLoop(data, offset, WInt(0), 0, FALSE)

ReadVarint(data, offset) == ReadLoop(data, offset, WInt(0), 0, TRUE)

(***************************************************************************)
(* struct.pack("<i", v) and struct.unpack("<i", b): a 32-bit signed value  *)
(* as 4 little-endian bytes, two's complement.                             *)
(***************************************************************************)
\* the size written big-endian
PackBE32(v) ==
    <<(v \div 16777216) % 256, (v \div 65536) % 256, (v \div 256) % 256, v % 256>>

PackLE32(v) ==
    <<v % 256, (v \div 256) % 256, (v \div 65536) % 256, (v \div 16777216) % 256>>

UnpackLE32(b) ==
    b[1] + b[2] * 256 + b[3] * 65536
    + (IF b[4] >= 128 THEN b[4] - 256 ELSE b[4]) * 16777216

(***************************************************************************)
(* rcon_command._make_packet                                               *)
(***************************************************************************)
\* the frame with its size field in the wrong byte order
MakePacketBE(req_id, pkt_type, payload) ==
    LET body == PackLE32(req_id) \o PackLE32(pkt_type) \o payload \o <<0, 0>>
    IN  PackBE32(Len(body)) \o body

MakePacket(req_id, pkt_type, payload) ==
    LET body == PackLE32(req_id) \o PackLE32(pkt_type) \o payload \o <<0, 0>>
    IN  PackLE32(Len(body)) \o body

SERVERDATA_AUTH == 3

SERVERDATA_EXECCOMMAND == 2

(***************************************************************************)
(* rcon_command._read_packet, the part after the two receive loops: the    *)
(* frame decoded from the `size` bytes collected.  struct.unpack needs     *)
(* exactly 4 bytes, so fewer than 8 bytes of data raise struct.error.      *)
(***************************************************************************)
NoPkt == [st |-> "none", req_id |-> 0, pkt_type |-> 0, payload |-> <<>>]

EofPkt == [st |-> "eof", req_id |-> 0, pkt_type |-> 0, payload |-> <<>>]

BadPkt == [st |-> "struct.error", req_id |-> 0, pkt_type |-> 0, payload |-> <<>>]

\* payload = data[8:], the two trailing bytes kept
DecodePacketUntrimmed(data) ==
    IF Len(data) < 8
    THEN BadPkt
    ELSE [st |-> "frame",
          req_id |-> UnpackLE32(SubSeq(data, 1, 4)),
          pkt_type |-> UnpackLE32(SubSeq(data, 5, 8)),
          payload |-> SubSeq(data, 9, Len(data))]

DecodePacket(data) ==
    IF Len(data) < 8
    THEN BadPkt
    ELSE [st |-> "frame",
          req_id |-> UnpackLE32(SubSeq(data, 1, 4)),
          pkt_type |-> UnpackLE32(SubSeq(data, 5, 8)),
          payload |-> IF Len(data) > 10
                      THEN SubSeq(data, 9, Len(data) - 2)
                      ELSE <<>>]

\* raw_size += chunk, data += chunk
Accumulate(buf, chunk) == buf \o chunk

(***************************************************************************)
(* Text is a sequence of code points.  str.encode("utf-8") for code points *)
(* below U+0800 (one or two bytes), and bytes.decode("utf-8",              *)
(* errors="replace") for byte strings without the lead bytes 0xE0..0xF4 of *)
(* three- and four-byte sequences: a valid one- or two-byte sequence gives *)
(* its code point, any other byte gives one U+FFFD.                        *)
(***************************************************************************)
RECURSIVE EncodeUtf8(_)
EncodeUtf8(text) ==
    IF text = <<>> THEN <<>>
    ELSE LET cp == Head(text)
         IN  (IF cp < 128
              THEN <<cp>>
              ELSE <<192 + (cp \div 64), 128 + (cp % 64)>>) \o EncodeUtf8(Tail(text))

RECURSIVE DecodeReplace(_)
DecodeReplace(bytes) ==
    IF bytes = <<>> THEN <<>>
    ELSE LET b == Head(bytes)
         IN  IF b < 128
             THEN <<b>> \o DecodeReplace(Tail(bytes))
             ELSE IF b >= 194 /\ b <= 223 /\ Len(bytes) >= 2
                     /\ bytes[2] >= 128 /\ bytes[2] <= 191
             THEN <<(b - 192) * 64 + (bytes[2] - 128)>>
                  \o DecodeReplace(Tail(Tail(bytes)))
             ELSE <<65533>> \o DecodeReplace(Tail(bytes))

\* sock.sendall(_make_packet(req_id, SERVERDATA_AUTH, password.encode("utf-8")))
AuthFrame(req_id, password) ==
    MakePacket(req_id, SERVERDATA_AUTH, EncodeUtf8(password))

\* sock.sendall(_make_packet(req_id, SERVERDATA_EXECCOMMAND, command.encode("utf-8")))
CommandFrame(req_id, command) ==
    MakePacket(req_id, SERVERDATA_EXECCOMMAND, EncodeUtf8(command))

(***************************************************************************)
(* Inputs of the codec harness.                                            *)
(***************************************************************************)
MaxSmall == 130

MinInt32 == -2147483647 - 1

MaxInt32 == 2147483647

\* every value near zero, and the values around each 7-bit group boundary
VarintInputs ==
    (-MaxSmall..MaxSmall)
    \cup {2^14 - 1, 2^14, 2^21 - 1, 2^21, 2^28 - 1, 2^28, MaxInt32 - 1, MaxInt32}
    \cup {-(2^14), -(2^14) - 1, -(2^21), -(2^21) - 1, -(2^28), -(2^28) - 1,
          MinInt32 + 1, MinInt32}

\* the byte strings handed to _read_varint: every string of up to MaxBytes
\* bytes over a few byte values, the encodings of the integers above, and
\* varints of five bytes and more
MaxBytes == 3

ByteValues == {0, 1, 127, 128, 255}

ShortByteStrings == UNION {[1..k -> ByteValues] : k \in 1..MaxBytes}

LongVarints ==
    {<<255, 255, 255, 255, 15>>, <<255, 255, 255, 255, 7>>,
     <<255, 255, 255, 255, 127>>, <<128, 128, 128, 128, 0>>,
     <<128, 128, 128, 128, 128>>, <<128, 128, 128, 128, 128, 0>>,
     <<255, 255, 255, 255, 255, 1>>, <<129, 128, 128, 128, 128, 128, 128, 0, 9>>}

DecodeInputs ==
    ShortByteStrings \cup LongVarints \cup {EncodeVarint(v) : v \in VarintInputs}

Secret == <<115, 101, 99, 114, 101, 116>>      \* "secret"

CmdSay == <<115, 97, 121, 32, 233>>            \* "say é"

PacketIds == {0, 1, 258, MaxInt32, -1, MinInt32}

PacketTypes == {0, SERVERDATA_EXECCOMMAND, SERVERDATA_AUTH, -1}

PacketPayloads == {<<>>, <<0>>, <<79, 75>>, Secret, <<255, 0, 195, 169>>}

Passwords == {<<>>, Secret, <<112, 233>>}

(***************************************************************************)
(* The console server, which is not part of the repository: what it puts   *)
(* on the wire in reply to a frame.  A reply is a well-formed frame, a     *)
(* prefix of one (the peer stops sending), a frame followed by a stray     *)
(* byte, or a frame whose declared size is too small to hold the two       *)
(* header fields.                                                          *)
(***************************************************************************)
Min(a, b) == IF a < b THEN a ELSE b

RawFrame(size, data) == PackLE32(size) \o data

ServerFrame(req_id, pkt_type, payload) ==
    RawFrame(4 + 4 + Len(payload) + 2,
             PackLE32(req_id) \o PackLE32(pkt_type) \o payload \o <<0, 0>>)

ReplyTypes == {0, SERVERDATA_EXECCOMMAND}

ReplyPayloads == {<<>>, <<79, 75, 255>>}

CutPoints == {0, 2, 9, 13}

BadSizes == {-1, 0, 4, 8, 9}

WellFormedReplies(ids) ==
    {ServerFrame(i, t, p) : i \in ids, t \in ReplyTypes, p \in ReplyPayloads}

TruncatedReplies(ids) ==
    {SubSeq(f, 1, n) : f \in WellFormedReplies(ids), n \in CutPoints}

StrayReplies(ids) == {ServerFrame(i, 0, <<>>) \o <<7>> : i \in ids}

MalformedReplies(ids) ==
    {RawFrame(s, SubSeq(PackLE32(i) \o PackLE32(0) \o <<0, 0>>, 1, IF s < 0 THEN 0 ELSE s)) :
        s \in BadSizes, i \in ids}

Replies(ids) ==
    WellFormedReplies(ids) \cup TruncatedReplies(ids) \cup StrayReplies(ids)
    \cup MalformedReplies(ids)

\* a rejecting server answers the authenticate frame with request_id = -1
AuthReplies(policy, req_id) ==
    IF policy = "reject" THEN Replies({-1}) ELSE Replies({req_id, 0})

CommandReplies(req_id) == Replies({req_id, 0, -1})

(***************************************************************************)
(* rcon_command, the direct-socket path (instance_id not given).           *)
(***************************************************************************)
MaxRecvs == 3

\* req_id = _random.randint(-1, 1): a range that holds the sentinel
ReqIdsSigned == {-1, 1}

\* req_id = _random.randint(1, 2147483647): the two ends of the range
ReqIds == {1, MaxInt32}

Commands == {CmdSay}

NoOut == [kind |-> "none", exc |-> "", msg |-> "", text |-> <<>>]

Raised(exc, msg) == [kind |-> "raise", exc |-> exc, msg |-> msg, text |-> <<>>]

Returned(text) == [kind |-> "return", exc |-> "", msg |-> "", text |-> text]

InitWith(policies) ==
    /\ cOp = "none"
    /\ cIn = 0
    /\ cOut = <<>>
    /\ sConnected = FALSE
    /\ sRet = [op |-> "none", kind |-> "none", val |-> ""]
    /\ sLog = <<>>
    /\ serverPolicy \in policies
    /\ rPc = "idle"
    /\ rSock = "none"
    /\ rSent = <<>>
    /\ rRx = <<>>
    /\ rRxPos = 0
    /\ rBuf = <<>>
    /\ rSize = 0
    /\ rPktStart = 0
    /\ rRecvs = 0
    /\ rStage = "size"
    /\ rArgs = [password |-> <<>>, command |-> <<>>]
    /\ rAuthPkt = NoPkt
    /\ rCmdPkt = NoPkt
    /\ rOut = NoOut
    /\ pPc = "idle"
    /\ pSock = "none"
    /\ pArgs = [host |-> <<>>, port |-> 0]
    /\ pSent = <<>>
    /\ pRx = <<>>
    /\ pRxPos = 0
    /\ pData = <<>>
    /\ pRet = [kind |-> "pending", doc |-> [t |-> "null"], exc |-> ""]
    /\ stPc = "idle"
    /\ stConfig = [t |-> "obj", v |-> <<>>]
    /\ stRet = [called |-> FALSE]
    /\ fPc = "unloaded"
    /\ fDefaults = <<>>
    /\ fFile = [exists |-> FALSE, text |-> <<>>]
    /\ fLast = [op |-> "none", arg |-> <<>>, ret |-> FALSE,
                before |-> [exists |-> FALSE, text |-> <<>>]]
    /\ fRead = [done |-> FALSE, err |-> FALSE, props |-> <<>>]

\* the session object has not been used
SessIdle == ~sConnected /\ sRet.op = "none" /\ sLog = <<>>

\* sock = socket(...); sock.settimeout(timeout); try:
RconCall ==
    /\ rPc = "idle"
    /\ SessIdle
    /\ \E pw \in {Secret}, cmd \in Commands :
          rArgs' = [password |-> pw, command |-> cmd]
    /\ rSock' = "open"
    /\ rPc' = "connect"
    /\ UNCHANGED <<rSent, rRx, rRxPos, rBuf, rSize, rPktStart, rRecvs, rStage,
                   rAuthPkt, rCmdPkt, rOut, serverPolicy>>
    /\ UNCHANGED <<codecVars, sessVars, pingVars, statusVars, propsVars>>

\* the call without the finally clause: only the normal return closes
FinishNoFinally(out) ==
    /\ rPc' = "done"
    /\ rSock' = IF out.kind = "return" THEN "closed" ELSE rSock
    /\ rOut' = out

\* an exception or a return inside try: the finally clause closes the socket
Finish(out) ==
    /\ rPc' = "done"
    /\ rSock' = "closed"
    /\ rOut' = out

\* sock.connect((host, int(port)))
RconConnect ==
    /\ rPc = "connect"
    /\ \/ /\ rPc' = "send_auth"
          /\ UNCHANGED <<rSock, rOut>>
       \/ \E exc \in {"ConnectionRefusedError", "socket.timeout"} :
             Finish(Raised(exc, ""))
    /\ UNCHANGED <<rSent, rRx, rRxPos, rBuf, rSize, rPktStart, rRecvs, rStage,
                   rArgs, rAuthPkt, rCmdPkt, serverPolicy>>
    /\ UNCHANGED <<codecVars, sessVars, pingVars, statusVars, propsVars>>

\* entering _read_packet: raw_size = b""
StartRead ==
    /\ rBuf' = <<>>
    /\ rSize' = 0
    /\ rStage' = "size"
    /\ rPktStart' = rRxPos
    /\ rRecvs' = 0

\* req_id = randint(...); sock.sendall(_make_packet(req_id, SERVERDATA_AUTH, ...))
RconSendAuth ==
    /\ rPc = "send_auth"
    /\ \/ \E id \in ReqIds :
             /\ rSent' = Append(rSent, AuthFrame(id, rArgs.password))
             /\ \E reply \in AuthReplies(serverPolicy, id) : rRx' = rRx \o reply
             /\ rPc' = "read_auth"
             /\ StartRead
             /\ UNCHANGED <<rSock, rOut>>
       \/ /\ Finish(Raised("BrokenPipeError", ""))
          /\ UNCHANGED <<rSent, rRx, rBuf, rSize, rStage, rPktStart, rRecvs>>
    /\ UNCHANGED <<rRxPos, rArgs, rAuthPkt, rCmdPkt, serverPolicy>>
    /\ UNCHANGED <<codecVars, sessVars, pingVars, statusVars, propsVars>>

\* req_id = randint(...); sock.sendall(_make_packet(req_id, SERVERDATA_EXECCOMMAND, ...))
RconSendCommand ==
    /\ rPc = "send_cmd"
    /\ \/ \E id \in ReqIds :
             /\ rSent' = Append(rSent, CommandFrame(id, rArgs.command))
             /\ \E reply \in CommandReplies(id) : rRx' = rRx \o reply
             /\ rPc' = "read_cmd"
             /\ StartRead
             /\ UNCHANGED <<rSock, rOut>>
       \/ /\ Finish(Raised("BrokenPipeError", ""))
          /\ UNCHANGED <<rSent, rRx, rBuf, rSize, rStage, rPktStart, rRecvs>>
    /\ UNCHANGED <<rRxPos, rArgs, rAuthPkt, rCmdPkt, serverPolicy>>
    /\ UNCHANGED <<codecVars, sessVars, pingVars, statusVars, propsVars>>

\* if pkt is None or pkt[0] != req_id: the response must echo the identifier
AuthFailedStrict(pkt) ==
    pkt.st = "eof" \/ pkt.req_id # UnpackLE32(SubSeq(rSent[1], 5, 8))

\* if pkt is None or pkt[0] == -1, with the packet type checked as well
AuthFailedTyped(pkt) ==
    pkt.st = "eof" \/ (pkt.req_id = -1 /\ pkt.pkt_type = SERVERDATA_EXECCOMMAND)

\* if pkt is None or pkt[0] == -1
AuthFailed(pkt) == pkt.st = "eof" \/ pkt.req_id = -1

\* what rcon_command does with the value _read_packet returned (or raised)
Deliver(pkt) ==
    IF rPc = "read_auth"
    THEN /\ rAuthPkt' = pkt
         /\ rCmdPkt' = rCmdPkt
         /\ IF pkt.st = "struct.error"
            THEN Finish(Raised("struct.error", ""))
            ELSE IF AuthFailed(pkt)
            THEN Finish(Raised("ConnectionError", "RCON authentication failed"))
            ELSE /\ rPc' = "send_cmd"
                 /\ UNCHANGED <<rSock, rOut>>
    ELSE /\ rCmdPkt' = pkt
         /\ rAuthPkt' = rAuthPkt
         /\ IF pkt.st = "struct.error"
            THEN Finish(Raised("struct.error", ""))
            ELSE IF pkt.st = "eof"
            THEN Finish(Raised("ConnectionError", "RCON command returned no response"))
            ELSE Finish(Returned(DecodeReplace(pkt.payload)))

\* while len(data) < size, with a single recv taken for the whole of data
NeedMoreDataOnce(data, size) == Len(data) < size /\ data = <<>>

\* while len(data) < size
NeedMoreData(data, size) == Len(data) < size

\* one more recv call of the data loop counted (history, up to MaxRecvs)
CountRecv(n) == IF n < MaxRecvs THEN n + 1 ELSE n

\* chunk = sock.recv(n) returning 1..n bytes, and the rest of the loop body
RconRecv ==
    /\ rPc \in {"read_auth", "read_cmd"}
    /\ rRxPos < Len(rRx)
    /\ LET want == IF rStage = "size" THEN 4 - Len(rBuf) ELSE rSize - Len(rBuf)
       IN  \E k \in 1..Min(want, Len(rRx) - rRxPos) :
             LET chunk == SubSeq(rRx, rRxPos + 1, rRxPos + k)
                 buf == Accumulate(rBuf, chunk)
             IN  /\ rRxPos' = rRxPos + k
                 /\ rBuf' = IF rStage = "size" /\ Len(buf) >= 4 THEN <<>> ELSE buf
                 /\ IF rStage = "size"
                    THEN /\ rRecvs' = rRecvs
                         /\ IF Len(buf) < 4
                            THEN UNCHANGED <<rStage, rSize, rPc, rSock, rOut,
                                             rAuthPkt, rCmdPkt>>
                            ELSE /\ rSize' = UnpackLE32(buf)
                                 /\ IF NeedMoreData(<<>>, rSize')
                                    THEN /\ rStage' = "data"
                                         /\ UNCHANGED <<rPc, rSock, rOut,
                                                        rAuthPkt, rCmdPkt>>
                                    ELSE /\ rStage' = rStage
                                         /\ Deliver(DecodePacket(<<>>))
                    ELSE /\ rRecvs' = CountRecv(rRecvs)
                         /\ UNCHANGED <<rStage, rSize>>
                         /\ IF NeedMoreData(buf, rSize)
                            THEN UNCHANGED <<rPc, rSock, rOut, rAuthPkt, rCmdPkt>>
                            ELSE Deliver(DecodePacket(buf))
    /\ UNCHANGED <<rSent, rRx, rPktStart, rArgs, serverPolicy>>
    /\ UNCHANGED <<codecVars, sessVars, pingVars, statusVars, propsVars>>

\* if not chunk: break, so that a frame is built from the bytes collected
OnEofBreak(buf) == IF Len(buf) >= 8 THEN DecodePacket(buf) ELSE EofPkt

\* if not chunk: return None, whatever has been collected
OnEof(buf) == EofPkt

\* chunk = sock.recv(n) returning b"": the peer closed; return None
RconRecvEof ==
    /\ rPc \in {"read_auth", "read_cmd"}
    /\ rRxPos = Len(rRx)
    /\ Deliver(OnEof(rBuf))
    /\ UNCHANGED <<rSent, rRx, rRxPos, rBuf, rSize, rPktStart, rRecvs, rStage,
                   rArgs, serverPolicy>>
    /\ UNCHANGED <<codecVars, sessVars, pingVars, statusVars, propsVars>>

\* sock.recv(n) raising: nothing arrived within the timeout, or a reset
RconRecvError ==
    /\ rPc \in {"read_auth", "read_cmd"}
    /\ rRxPos = Len(rRx)
    /\ \E exc \in {"socket.timeout", "ConnectionResetError"} : Finish(Raised(exc, ""))
    /\ UNCHANGED <<rSent, rRx, rRxPos, rBuf, rSize, rPktStart, rRecvs, rStage,
                   rArgs, rAuthPkt, rCmdPkt, serverPolicy>>
    /\ UNCHANGED <<codecVars, sessVars, pingVars, statusVars, propsVars>>

RconNext ==
    \/ RconCall
    \/ RconConnect
    \/ RconSendAuth
    \/ RconSendCommand
    \/ RconRecv
    \/ RconRecvEof
    \/ RconRecvError

(***************************************************************************)
(* daemon_rcon_command: one HTTP POST to the daemon, which is not part of  *)
(* the repository.  `reply` is what the request met: an exception of       *)
(* urlopen or of reading the body, a body that is not JSON, or the decoded *)
(* JSON object, given by the shape the function distinguishes.  The result *)
(* is [exc, val]: the exception raised ("" for none) or the text returned. *)
(***************************************************************************)
DaemonReplies ==
    {"URLError", "HTTPError", "read_timeout", "not_json", "json_error",
     "json_data_dict", "json_data_dict_without_data", "json_data_scalar",
     "json_message", "json_empty"}

DaemonRconCommand(reply) ==
    CASE reply \in {"URLError", "HTTPError"} ->
            [exc |-> "ConnectionError", val |-> ""]       \* HTTPError is a URLError
      [] reply = "read_timeout" -> [exc |-> "socket.timeout", val |-> ""]
      [] reply = "not_json" -> [exc |-> "ValueError", val |-> ""]
      [] reply = "json_error" -> [exc |-> "ConnectionError", val |-> ""]
      [] reply = "json_data_dict" -> [exc |-> "", val |-> "data.data"]
      [] reply = "json_data_dict_without_data" -> [exc |-> "", val |-> "str(data)"]
      [] reply = "json_data_scalar" -> [exc |-> "", val |-> "str(data)"]
      [] reply = "json_message" -> [exc |-> "", val |-> "message"]
      [] OTHER -> [exc |-> "", val |-> ""]

(***************************************************************************)
(* DaemonRconClient: the session object.  A call runs to completion before *)
(* the caller makes another (the clients are synchronous), and the driver  *)
(* uses either the session object or rcon_command in one run: the two      *)
(* share no state.                                                         *)
(***************************************************************************)
\* the calls followed on one session object
MaxCalls == 4

\* a call as the log keeps it: the method, who made the call ("caller", or
\* "send_command" for a call PalworldRconClient.send_command makes), the
\* value of _connected when it returns, the requests it sent to the daemon
Call(op, by, connected, requests) ==
    [op |-> op, by |-> by, connected |-> connected, requests |-> requests]

\* DaemonRconClient.connect(), called by `by`
Connect(by) == Call("connect", by, TRUE, 0)

\* DaemonRconClient.disconnect() with the flag left as it is
SessDisconnectKept ==
    /\ rPc = "idle"
    /\ Len(sLog) < MaxCalls
    /\ sConnected' = sConnected
    /\ sRet' = [op |-> "disconnect", kind |-> "none", val |-> ""]
    /\ sLog' = Append(sLog, Call("disconnect", "caller", sConnected, 0))
    /\ UNCHANGED <<codecVars, rconVars, pingVars, statusVars, propsVars>>

SessDisconnect ==
    /\ rPc = "idle"
    /\ Len(sLog) < MaxCalls
    /\ sConnected' = FALSE
    /\ sRet' = [op |-> "disconnect", kind |-> "none", val |-> ""]
    /\ sLog' = Append(sLog, Call("disconnect", "caller", FALSE, 0))
    /\ UNCHANGED <<codecVars, rconVars, pingVars, statusVars, propsVars>>

SessConnect ==
    /\ rPc = "idle"
    /\ Len(sLog) < MaxCalls
    /\ sConnected' = TRUE
    /\ sRet' = [op |-> "connect", kind |-> "value", val |-> "True"]
    /\ sLog' = Append(sLog, Connect("caller"))
    /\ UNCHANGED <<codecVars, rconVars, pingVars, statusVars, propsVars>>

\* what DaemonRconClient.command(cmd) gives its caller
CommandResult(op, r) ==
    IF r.exc = "ConnectionError"
    THEN [op |-> op, kind |-> "none", val |-> ""]
    ELSE IF r.exc # ""
    THEN [op |-> op, kind |-> "raise", val |-> r.exc]
    ELSE [op |-> op, kind |-> "value", val |-> r.val]

SessCommand ==
    /\ rPc = "idle"
    /\ Len(sLog) < MaxCalls
    /\ \E reply \in DaemonReplies :
          sRet' = CommandResult("command", DaemonRconCommand(reply))
    /\ sLog' = Append(sLog, Call("command", "caller", sConnected, 1))
    /\ UNCHANGED sConnected
    /\ UNCHANGED <<codecVars, rconVars, pingVars, statusVars, propsVars>>

\* the calls send_command makes before the command when it never reconnects
NoReconnect == <<>>

\* the calls send_command makes before the command: connect() when
\* self._client.socket is None; connect() returns True, so the command follows
Reconnect == IF sConnected THEN <<>> ELSE <<Connect("send_command")>>

\* PalworldRconClient.send_command(command): except Exception turns whatever
\* command() raises into None
PalSendCommand ==
    /\ rPc = "idle"
    /\ Len(sLog) + 1 < MaxCalls
    /\ LET calls == Reconnect
           connected == sConnected \/ calls # <<>>
       IN  /\ sConnected' = connected
           /\ sLog' = sLog \o calls
                        \o <<Call("command", "send_command", connected, 1)>>
    /\ \E reply \in DaemonReplies :
          LET r == CommandResult("send_command", DaemonRconCommand(reply))
          IN  sRet' = IF r.kind = "raise"
                      THEN [op |-> "send_command", kind |-> "none", val |-> ""]
                      ELSE r
    /\ UNCHANGED <<codecVars, rconVars, pingVars, statusVars, propsVars>>

SessNext ==
    \/ SessConnect
    \/ SessDisconnect
    \/ SessCommand
    \/ PalSendCommand

(***************************************************************************)
(* The codec harness: one application of a pure function to an input.      *)
(***************************************************************************)
CodecEncode ==
    /\ cOp = "none"
    /\ \E v \in VarintInputs :
          /\ cIn' = v
          /\ cOut' = EncodeVarint(v)
    /\ cOp' = "encode"
    /\ UNCHANGED <<rconVars, sessVars, pingVars, statusVars, propsVars>>

CodecRoundTrip ==
    /\ cOp = "none"
    /\ \E v \in VarintInputs :
          /\ cIn' = v
          /\ cOut' = ReadVarint(EncodeVarint(v), 0)
    /\ cOp' = "roundtrip"
    /\ UNCHANGED <<rconVars, sessVars, pingVars, statusVars, propsVars>>

CodecMakePacket ==
    /\ cOp = "none"
    /\ \E id \in PacketIds, t \in PacketTypes, p \in PacketPayloads :
          /\ cIn' = [req_id |-> id, pkt_type |-> t, payload |-> p]
          /\ cOut' = MakePacket(id, t, p)
    /\ cOp' = "make_packet"
    /\ UNCHANGED <<rconVars, sessVars, pingVars, statusVars, propsVars>>

CodecAuthFrame ==
    /\ cOp = "none"
    /\ \E id \in ReqIds, pw \in Passwords :
          /\ cIn' = [req_id |-> id, password |-> pw]
          /\ cOut' = AuthFrame(id, pw)
    /\ cOp' = "auth_frame"
    /\ UNCHANGED <<rconVars, sessVars, pingVars, statusVars, propsVars>>

\* _read_varint(b, 0)
CodecDecode ==
    /\ cOp = "none"
    /\ \E b \in DecodeInputs :
          /\ cIn' = b
          /\ cOut' = ReadVarint(b, 0)
    /\ cOp' = "decode"
    /\ UNCHANGED <<rconVars, sessVars, pingVars, statusVars, propsVars>>

\* v, k = _read_varint(b, 0), then _encode_varint(v)
CodecReencode ==
    /\ cOp = "none"
    /\ \E b \in DecodeInputs :
          LET r == ReadVarint(b, 0)
          IN  /\ ~r.err
              /\ cIn' = b
              /\ cOut' = [read |-> r, bytes |-> EncodeVarintWide(r.value)]
    /\ cOp' = "reencode"
    /\ UNCHANGED <<rconVars, sessVars, pingVars, statusVars, propsVars>>

CodecNext ==
    \/ CodecEncode
    \/ CodecRoundTrip
    \/ CodecMakePacket
    \/ CodecAuthFrame
    \/ CodecDecode
    \/ CodecReencode

(***************************************************************************)
(* JSON values as json.loads returns them, tagged by type: null, bool,     *)
(* int, str, list (a sequence of values) and obj (a function from keys to  *)
(* values).                                                                *)
(***************************************************************************)
JNull == [t |-> "null"]

JInt(n) == [t |-> "int", v |-> n]

JStr(str) == [t |-> "str", v |-> str]

JList(items) == [t |-> "list", v |-> items]

JObj(fields) == [t |-> "obj", v |-> fields]

EmptyObj == [t |-> "obj", v |-> <<>>]

\* d.get(key, default) on a dict
Get(d, key, default) == IF key \in DOMAIN d.v THEN d.v[key] ELSE default

\* bool(x)
Truthy(x) ==
    CASE x.t = "null" -> FALSE
      [] x.t = "int" -> x.v # 0
      [] x.t = "str" -> x.v # ""
      [] x.t = "list" -> Len(x.v) > 0
      [] x.t = "obj" -> DOMAIN x.v # {}
      [] OTHER -> FALSE

(***************************************************************************)
(* The JSON documents of the model, as the bytes on the wire and as the    *)
(* values json.loads gives for them.                                       *)
(***************************************************************************)
\* {"players":{"online":3,"max":20,"sample":[{"name":"Steve"}]},
\*  "version":{"name":"1.21","protocol":767},"description":"A Server"}
ExampleJson ==
    <<123, 34, 112, 108, 97, 121, 101, 114, 115, 34, 58, 123, 34, 111, 110, 108,
      105, 110, 101, 34, 58, 51, 44, 34, 109, 97, 120, 34, 58, 50, 48, 44,
      34, 115, 97, 109, 112, 108, 101, 34, 58, 91, 123, 34, 110, 97, 109, 101,
      34, 58, 34, 83, 116, 101, 118, 101, 34, 125, 93, 125, 44, 34, 118, 101,
      114, 115, 105, 111, 110, 34, 58, 123, 34, 110, 97, 109, 101, 34, 58, 34,
      49, 46, 50, 49, 34, 44, 34, 112, 114, 111, 116, 111, 99, 111, 108, 34,
      58, 55, 54, 55, 125, 44, 34, 100, 101, 115, 99, 114, 105, 112, 116, 105,
      111, 110, 34, 58, 34, 65, 32, 83, 101, 114, 118, 101, 114, 34, 125>>

ExampleDoc ==
    JObj([players |-> JObj([online |-> JInt(3), max |-> JInt(20),
                            sample |-> JList(<<JObj([name |-> JStr("Steve")])>>)]),
          version |-> JObj([name |-> JStr("1.21"), protocol |-> JInt(767)]),
          description |-> JStr("A Server")])

\* {"description":{"text":"Hi"},"players":{"online":0,"max":5,"sample":[]},
\*  "version":{"name":"1.8","protocol":47}}
TextMotdJson ==
    <<123, 34, 100, 101, 115, 99, 114, 105, 112, 116, 105, 111, 110, 34, 58, 123,
      34, 116, 101, 120, 116, 34, 58, 34, 72, 105, 34, 125, 44, 34, 112, 108,
      97, 121, 101, 114, 115, 34, 58, 123, 34, 111, 110, 108, 105, 110, 101, 34,
      58, 48, 44, 34, 109, 97, 120, 34, 58, 53, 44, 34, 115, 97, 109, 112,
      108, 101, 34, 58, 91, 93, 125, 44, 34, 118, 101, 114, 115, 105, 111, 110,
      34, 58, 123, 34, 110, 97, 109, 101, 34, 58, 34, 49, 46, 56, 34, 44,
      34, 112, 114, 111, 116, 111, 99, 111, 108, 34, 58, 52, 55, 125, 125>>

TextMotdDoc ==
    JObj([description |-> JObj([text |-> JStr("Hi")]),
          players |-> JObj([online |-> JInt(0), max |-> JInt(5),
                            sample |-> JList(<<>>)]),
          version |-> JObj([name |-> JStr("1.8"), protocol |-> JInt(47)])])

\* {"players":{"online":1}}
SparseJson ==
    <<123, 34, 112, 108, 97, 121, 101, 114, 115, 34, 58, 123, 34, 111, 110, 108,
      105, 110, 101, 34, 58, 49, 125, 125>>

SparseDoc == JObj([players |-> JObj([online |-> JInt(1)])])

\* {"players":null}
NullPlayersJson ==
    <<123, 34, 112, 108, 97, 121, 101, 114, 115, 34, 58, 110, 117, 108, 108, 125>>

NullPlayersDoc == JObj([players |-> JNull])

\* the texts 1, 10, 0, {}, [], null, and the byte strings x and 0xFF that are
\* no JSON text and no UTF-8
SmallPayloads ==
    {<<49>>, <<49, 48>>, <<48>>, <<123, 125>>, <<91, 93>>, <<110, 117, 108, 108>>,
     <<120>>, <<255>>}

BigPayloads == {ExampleJson, TextMotdJson, SparseJson, NullPlayersJson}

(***************************************************************************)
(* json.loads(bytes.decode("utf-8")) on the byte strings of the model:     *)
(* the value, or the exception raised.  Every byte string the model hands  *)
(* to it is a JSON text below or a proper prefix of one, or x or 0xFF:     *)
(* those are no JSON texts (an empty string is none either).               *)
(***************************************************************************)
JsonOk(value) == [exc |-> "", value |-> value]

JsonFail(exc) == [exc |-> exc, value |-> JNull]

JsonLoads(bytes) ==
    CASE bytes = ExampleJson -> JsonOk(ExampleDoc)
      [] bytes = TextMotdJson -> JsonOk(TextMotdDoc)
      [] bytes = SparseJson -> JsonOk(SparseDoc)
      [] bytes = NullPlayersJson -> JsonOk(NullPlayersDoc)
      [] bytes = <<49>> -> JsonOk(JInt(1))
      [] bytes = <<49, 48>> -> JsonOk(JInt(10))
      [] bytes = <<48>> -> JsonOk(JInt(0))
      [] bytes = <<123, 125>> -> JsonOk(EmptyObj)
      [] bytes = <<91, 93>> -> JsonOk(JList(<<>>))
      [] bytes = <<110, 117, 108, 108>> -> JsonOk(JNull)
      [] \E i \in 1..Len(bytes) : bytes[i] >= 128 -> JsonFail("UnicodeDecodeError")
      [] OTHER -> JsonFail("JSONDecodeError")

(***************************************************************************)
(* MinecraftPing._parse_response.  The result is [kind, doc]: "value" with *)
(* the decoded document, or "none" for None.  A document that decodes to   *)
(* null is None as well.                                                   *)
(***************************************************************************)
ParsedNone == [kind |-> "none", doc |-> JNull]

ParsedValue(doc) ==
    IF doc.t = "null" THEN ParsedNone ELSE [kind |-> "value", doc |-> doc]

\* data[start:stop] with stop a Python integer: a stop beyond the end is the
\* end, a negative stop counts from the end
PySlice(data, start, stop) ==
    LET n == Len(data)
        e == IF ~WLess(stop, WInt(n)) THEN n
             ELSE IF ~WLess(stop, WInt(0)) THEN WToInt(stop)
             ELSE IF WLess(stop, WInt(-n)) THEN 0
             ELSE n + WToInt(stop)
    IN  IF start < e THEN SubSeq(data, start + 1, e) ELSE <<>>

ParseResponse(data) ==
    LET pkt_len == ReadVarint(data, 0)
    IN  IF pkt_len.err THEN ParsedNone                      \* except ValueError
        ELSE IF WLess(WInt(Len(data)), WAddInt(pkt_len.value, pkt_len.offset))
        THEN ParsedNone
        ELSE LET pkt_id == ReadVarint(data, pkt_len.offset)
             IN  IF pkt_id.err THEN ParsedNone
                 ELSE IF ~WIsZero(pkt_id.value) THEN ParsedNone
                 ELSE LET json_len == ReadVarint(data, pkt_id.offset)
                      IN  IF json_len.err THEN ParsedNone
                          ELSE LET loaded == JsonLoads(PySlice(data, json_len.offset,
                                       WAddInt(json_len.value, json_len.offset)))
                               IN  IF loaded.exc # "" THEN ParsedNone
                                   ELSE ParsedValue(loaded.value)

(***************************************************************************)
(* The bytes MinecraftPing.ping writes.                                    *)
(***************************************************************************)
\* struct.pack(">H", port)
PackBE16(port) == <<port \div 256, port % 256>>

\* the handshake sent without its length in front
HandshakeUnframed(host, port) ==
    EncodeVarint(0) \o EncodeVarint(-1) \o EncodeVarint(Len(EncodeUtf8(host)))
    \o EncodeUtf8(host) \o PackBE16(port) \o EncodeVarint(1)

Handshake(host, port) ==
    LET host_bytes == EncodeUtf8(host)
        handshake_data == EncodeVarint(0) \o EncodeVarint(-1)
                          \o EncodeVarint(Len(host_bytes)) \o host_bytes
                          \o PackBE16(port) \o EncodeVarint(1)
    IN  EncodeVarint(Len(handshake_data)) \o handshake_data

StatusRequest == EncodeVarint(1) \o EncodeVarint(0)

(***************************************************************************)
(* The pinged server, which is not part of the repository: the bytes it    *)
(* sends before it closes or falls silent.  A response is a status packet  *)
(* around a payload, the same with its outer length, its packet id or its  *)
(* inner length wrong, with a byte after it, or bytes that are no packet.  *)
(***************************************************************************)
StatusPacket(outer_delta, pkt_id, inner_delta, payload) ==
    LET body == EncodeVarint(pkt_id) \o EncodeVarint(Len(payload) + inner_delta)
                \o payload
    IN  EncodeVarint(Len(body) + outer_delta) \o body

GoodResponses == {StatusPacket(0, 0, 0, p) : p \in SmallPayloads \cup BigPayloads}

SkewedResponses ==
    {StatusPacket(od, id, jd, p) :
        od \in {-1, 0, 1}, id \in {0, 1}, jd \in {-1, 0, 1}, p \in SmallPayloads}

TrailedResponses == {StatusPacket(0, 0, 0, p) \o <<0>> : p \in SmallPayloads}

RawResponses ==
    {<<>>, <<128>>, <<0>>, <<255, 255, 255, 255, 15, 0, 1, 49>>,
     <<131, 128, 0, 0, 1, 49>>, <<3, 128, 0, 1, 49>>,
     <<3, 0, 255, 255, 255, 255, 15, 49>>}

PingResponses ==
    GoodResponses \cup SkewedResponses \cup TrailedResponses \cup RawResponses

\* sock.recv(4096)
RecvMax == 4096

\* the largest port struct.pack(">H", port) and connect take
MaxPort == 65535

(***************************************************************************)
(* MinecraftPing.ping, one action per statement that touches the socket.   *)
(* pRet is the outcome of the call: a returned value (JNull is None) or a  *)
(* propagated exception.                                                   *)
(***************************************************************************)
PingPending == [kind |-> "pending", doc |-> JNull, exc |-> ""]

PingReturned(doc) == [kind |-> "return", doc |-> doc, exc |-> ""]

PingRaised(exc) == [kind |-> "raise", doc |-> JNull, exc |-> exc]

\* the exceptions that are OSError or a subclass of it; socket.error is
\* OSError itself
OSErrors ==
    {"OSError", "socket.timeout", "socket.gaierror", "ConnectionRefusedError",
     "ConnectionResetError", "BrokenPipeError"}

ConnectErrors == {"ConnectionRefusedError", "socket.timeout", "socket.gaierror"}

SendErrors == {"BrokenPipeError", "ConnectionResetError", "socket.timeout"}

RecvErrors == {"socket.timeout", "ConnectionResetError"}

\* except (socket.timeout, socket.error, OSError)
PingCatches(exc) == exc \in OSErrors

\* an exception leaves the try block: return None if the handler catches it,
\* otherwise it propagates; the socket is left as it is
PingExcept(exc) ==
    /\ pPc' = "done"
    /\ pRet' = IF PingCatches(exc) THEN PingReturned(JNull) ELSE PingRaised(exc)
    /\ UNCHANGED pSock

\* sock = socket.socket(AF_INET, SOCK_STREAM); sock.settimeout(timeout)
PingSocket ==
    /\ pPc = "socket"
    /\ pSock' = "open"
    /\ pPc' = "connect"
    /\ UNCHANGED <<pArgs, pSent, pRx, pRxPos, pData, pRet>>
    /\ UNCHANGED <<codecVars, rconVars, sessVars, statusVars, propsVars>>

\* socket.socket fails (no descriptor left): no socket was created
PingSocketError ==
    /\ pPc = "socket"
    /\ PingExcept("OSError")
    /\ UNCHANGED <<pArgs, pSent, pRx, pRxPos, pData>>
    /\ UNCHANGED <<codecVars, rconVars, sessVars, statusVars, propsVars>>

\* sock.connect((host, port)): a port outside 0..65535 is an OverflowError
\* before anything reaches the network; otherwise the peer is reached, and
\* what it will send is chosen here, or the connect fails
PingConnect ==
    /\ pPc = "connect"
    /\ pArgs.port \in 0..MaxPort
    /\ \E stream \in PingResponses : pRx' = stream
    /\ pPc' = "handshake"
    /\ UNCHANGED <<pSock, pArgs, pSent, pRxPos, pData, pRet>>
    /\ UNCHANGED <<codecVars, rconVars, sessVars, statusVars, propsVars>>

PingConnectError ==
    /\ pPc = "connect"
    /\ IF pArgs.port \in 0..MaxPort
       THEN \E exc \in ConnectErrors : PingExcept(exc)
       ELSE PingExcept("OverflowError")
    /\ UNCHANGED <<pArgs, pSent, pRx, pRxPos, pData>>
    /\ UNCHANGED <<codecVars, rconVars, sessVars, statusVars, propsVars>>

\* sock.sendall(varint(len(handshake_data)) + handshake_data)
PingSendHandshake ==
    /\ pPc = "handshake"
    /\ pSent' = pSent \o Handshake(pArgs.host, pArgs.port)
    /\ pPc' = "request"
    /\ UNCHANGED <<pSock, pArgs, pRx, pRxPos, pData, pRet>>
    /\ UNCHANGED <<codecVars, rconVars, sessVars, statusVars, propsVars>>

\* sock.sendall(varint(1) + varint(0)); data = b""
PingSendRequest ==
    /\ pPc = "request"
    /\ pSent' = pSent \o StatusRequest
    /\ pData' = <<>>
    /\ pPc' = "recv"
    /\ UNCHANGED <<pSock, pArgs, pRx, pRxPos, pRet>>
    /\ UNCHANGED <<codecVars, rconVars, sessVars, statusVars, propsVars>>

\* either sendall fails
PingSendError ==
    /\ pPc \in {"handshake", "request"}
    /\ \E exc \in SendErrors : PingExcept(exc)
    /\ UNCHANGED <<pArgs, pSent, pRx, pRxPos, pData>>
    /\ UNCHANGED <<codecVars, rconVars, sessVars, statusVars, propsVars>>

\* chunk = sock.recv(4096) gives n bytes; data += chunk; a parsed value that
\* is not None closes the socket and is returned, otherwise the loop goes on
PingRecv ==
    /\ pPc = "recv"
    /\ \E n \in 1..Min(RecvMax, Len(pRx) - pRxPos) :
          LET data == pData \o SubSeq(pRx, pRxPos + 1, pRxPos + n)
              parsed == ParseResponse(data)
          IN  /\ pRxPos' = pRxPos + n
              /\ pData' = data
              /\ IF parsed.kind = "value"
                 THEN /\ pSock' = "closed"
                      /\ pRet' = PingReturned(parsed.doc)
                      /\ pPc' = "done"
                 ELSE UNCHANGED <<pSock, pRet, pPc>>
    /\ UNCHANGED <<pArgs, pSent, pRx>>
    /\ UNCHANGED <<codecVars, rconVars, sessVars, statusVars, propsVars>>

\* the peer has sent everything and closed: recv gives b"", the loop breaks;
\* sock.close(); return None
PingRecvEof ==
    /\ pPc = "recv"
    /\ pRxPos = Len(pRx)
    /\ pSock' = "closed"
    /\ pRet' = PingReturned(JNull)
    /\ pPc' = "done"
    /\ UNCHANGED <<pArgs, pSent, pRx, pRxPos, pData>>
    /\ UNCHANGED <<codecVars, rconVars, sessVars, statusVars, propsVars>>

\* recv times out or the connection is reset
PingRecvError ==
    /\ pPc = "recv"
    /\ \E exc \in RecvErrors : PingExcept(exc)
    /\ UNCHANGED <<pArgs, pSent, pRx, pRxPos, pData>>
    /\ UNCHANGED <<codecVars, rconVars, sessVars, statusVars, propsVars>>

\* after the call the socket object is unreachable; the interpreter may
\* finalize it at any later moment, or never, and finalizing closes it
PingFinalize ==
    /\ pPc = "done"
    /\ pSock = "open"
    /\ pSock' = "closed"
    /\ UNCHANGED <<pPc, pArgs, pSent, pRx, pRxPos, pData, pRet>>
    /\ UNCHANGED <<codecVars, rconVars, sessVars, statusVars, propsVars>>

(***************************************************************************)
(* status(config).  The configs are dicts with and without the keys pid    *)
(* and port; the host is the default.                                      *)
(***************************************************************************)
DefaultPort == 25565

\* "127.0.0.1"
DefaultHost == <<49, 50, 55, 46, 48, 46, 48, 46, 49>>

\* "mc.\u00e9": a host name with a character outside ASCII
AccentHost == <<109, 99, 46, 233>>

\* a str of a config, kept as its code points
JText(text) == [t |-> "text", v |-> text]

Pids == {JNull, JInt(4242)}

Ports == {DefaultPort, MaxPort, MaxPort + 1}

Configs ==
    {EmptyObj}
    \cup {JObj([pid |-> pid]) : pid \in Pids}
    \cup {JObj([pid |-> pid, port |-> JInt(port)]) : pid \in Pids, port \in Ports}
    \cup {JObj([host |-> JText(AccentHost)])}

\* the description as it is, a dict included
MotdRaw(desc) == desc

\* if isinstance(desc, dict): desc = desc.get("text", "")
Motd(desc) == IF desc.t = "obj" THEN Get(desc, "text", JStr("")) ELSE desc

\* [p.get("name", "") for p in sample] can be evaluated: sample is a list
\* of dicts (a str, which iterates into strs without .get, only when empty)
Iterable(sample) ==
    \/ sample.t = "list" /\ \A i \in 1..Len(sample.v) : sample.v[i].t = "obj"
    \/ sample.t = "str" /\ sample.v = ""

PlayerList(sample) ==
    IF sample.t = "list"
    THEN JList([i \in 1..Len(sample.v) |-> Get(sample.v[i], "name", JStr(""))])
    ELSE JList(<<>>)

StatusFailed ==
    [success |-> FALSE, message |-> "Status check failed"]

StatusStopped ==
    [success |-> TRUE, status |-> "stopped", online |-> FALSE,
     message |-> "messages.no_process_running"]

StatusStarting(pid) ==
    [success |-> TRUE, status |-> "starting", pid |-> pid, online |-> FALSE,
     message |-> "messages.server_starting_no_response"]

\* the return value of the branch `if ping_result:`; an AttributeError or a
\* TypeError on the way is caught by the outer handler
StatusRunning(pid, ping_result) ==
    IF ping_result.t # "obj" THEN StatusFailed
    ELSE LET players == Get(ping_result, "players", EmptyObj)
             version == Get(ping_result, "version", EmptyObj)
             desc == Motd(Get(ping_result, "description", JStr("")))
         IN  IF \/ players.t # "obj"
                \/ ~Iterable(Get(players, "sample", JList(<<>>)))
                \/ version.t # "obj"
             THEN StatusFailed
             ELSE [success |-> TRUE, status |-> "running", pid |-> pid,
                   online |-> TRUE,
                   players_online |-> Get(players, "online", JInt(0)),
                   players_max |-> Get(players, "max", JInt(0)),
                   player_list |-> PlayerList(Get(players, "sample", JList(<<>>))),
                   version |-> Get(version, "name", JStr("unknown")),
                   protocol |-> Get(version, "protocol", JInt(-1)),
                   motd |-> desc,
                   message |-> "messages.server_online"]

\* pid, port, host = config.get(...); MinecraftPing.ping(host, int(port), 3)
StatusCall ==
    /\ stPc = "idle"
    /\ pPc = "idle"
    /\ \E config \in Configs :
          /\ stConfig' = config
          /\ pArgs' = [host |-> Get(config, "host", JText(DefaultHost)).v,
                       port |-> Get(config, "port", JInt(DefaultPort)).v]
    /\ stPc' = "ping"
    /\ pPc' = "socket"
    /\ UNCHANGED <<pSock, pSent, pRx, pRxPos, pData, pRet, stRet>>
    /\ UNCHANGED <<codecVars, rconVars, sessVars, propsVars>>

\* the rest of status() once ping has returned or raised; os.kill(pid, 0)
\* succeeds when the process exists
StatusReturn ==
    /\ stPc = "ping"
    /\ pPc = "done"
    /\ LET pid == Get(stConfig, "pid", JNull)
       IN  \E alive \in BOOLEAN :
              stRet' = IF pRet.kind = "raise" THEN StatusFailed
                       ELSE IF Truthy(pRet.doc) THEN StatusRunning(pid, pRet.doc)
                       ELSE IF Truthy(pid) /\ alive THEN StatusStarting(pid)
                       ELSE StatusStopped
    /\ stPc' = "done"
    /\ UNCHANGED <<stConfig, pingVars>>
    /\ UNCHANGED <<codecVars, rconVars, sessVars, propsVars>>

PingNext ==
    \/ StatusCall
    \/ PingSocket
    \/ PingSocketError
    \/ PingConnect
    \/ PingConnectError
    \/ PingSendHandshake
    \/ PingSendRequest
    \/ PingSendError
    \/ PingRecv
    \/ PingRecvEof
    \/ PingRecvError
    \/ PingFinalize
    \/ StatusReturn

(***************************************************************************)
(* ServerPropertiesManager.  Text (a str, and the content of the file,     *)
(* which is opened in text mode) is a sequence of code points.  A dict is  *)
(* a sequence of <<key, value>> pairs with distinct keys, in insertion     *)
(* order.                                                                  *)
(***************************************************************************)
NewLine == 10

Equals == 61

Hash == 35

\* the ASCII characters str.strip() removes
IsSpace(c) == c \in {9, 10, 11, 12, 13, 32}

RECURSIVE LStrip(_)
LStrip(text) ==
    IF text # <<>> /\ IsSpace(Head(text)) THEN LStrip(Tail(text)) ELSE text

RECURSIVE RStrip(_)
RStrip(text) ==
    IF text # <<>> /\ IsSpace(text[Len(text)])
    THEN RStrip(SubSeq(text, 1, Len(text) - 1))
    ELSE text

\* text.strip()
Strip(text) == RStrip(LStrip(text))

\* "=" in text
HasEquals(text) == \E i \in 1..Len(text) : text[i] = Equals

\* text.partition("="): the parts before and after the first "="
FirstEquals(text) == CHOOSE i \in 1..Len(text) :
                        text[i] = Equals /\ \A j \in 1..(i - 1) : text[j] # Equals

PartKey(text) == SubSeq(text, 1, FirstEquals(text) - 1)

PartValue(text) == SubSeq(text, FirstEquals(text) + 1, Len(text))

\* `for line in f`: the lines of the text, each with its "\n", the last one
\* without when the text does not end in one
RECURSIVE FileLines(_)
FileLines(text) ==
    LET breaks == {i \in 1..Len(text) : text[i] = NewLine}
        first == CHOOSE i \in breaks : \A j \in breaks : i <= j
    IN  IF text = <<>> THEN <<>>
        ELSE IF breaks = {} THEN <<text>>
        ELSE <<SubSeq(text, 1, first)>>
             \o FileLines(SubSeq(text, first + 1, Len(text)))

\* key in d, d[key], d[key] = value
HasKey(d, key) == \E i \in 1..Len(d) : d[i][1] = key

Lookup(d, key) == (CHOOSE i \in 1..Len(d) : d[i][1] = key)

ValueOf(d, key) == d[Lookup(d, key)][2]

SetItem(d, key, value) ==
    IF HasKey(d, key)
    THEN [d EXCEPT ![Lookup(d, key)] = <<key, value>>]
    ELSE Append(d, <<key, value>>)

\* d.update(changes)
RECURSIVE DictUpdate(_, _)
DictUpdate(d, changes) ==
    IF changes = <<>> THEN d
    ELSE DictUpdate(SetItem(d, Head(changes)[1], Head(changes)[2]), Tail(changes))

\* a < b for str (by code points)
RECURSIVE TextLess(_, _)
TextLess(a, b) ==
    IF b = <<>> THEN FALSE
    ELSE IF a = <<>> THEN TRUE
    ELSE IF Head(a) # Head(b) THEN Head(a) < Head(b)
    ELSE TextLess(Tail(a), Tail(b))

\* sorted(properties.items()): the keys are distinct, so the order is theirs
RECURSIVE Sorted(_)
Sorted(d) ==
    IF d = <<>> THEN <<>>
    ELSE LET m == CHOOSE i \in 1..Len(d) :
                     \A j \in 1..Len(d) : j = i \/ TextLess(d[i][1], d[j][1])
         IN  <<d[m]>> \o Sorted(SubSeq(d, 1, m - 1) \o SubSeq(d, m + 1, Len(d)))

\* f"{key}={value}\n"
PropLine(key, value) == key \o <<Equals>> \o value \o <<NewLine>>

RECURSIVE PropLines(_)
PropLines(d) ==
    IF d = <<>> THEN <<>>
    ELSE PropLine(Head(d)[1], Head(d)[2]) \o PropLines(Tail(d))

(***************************************************************************)
(* The file: whether os.path.isfile(path) holds, and its text.             *)
(***************************************************************************)
NoFile == [exists |-> FALSE, text |-> <<>>]

FileOf(text) == [exists |-> TRUE, text |-> text]

\* the body of the loops of read() and of _load_default_properties
ParseLine(props, raw) ==
    LET line == Strip(raw)
    IN  IF line = <<>> \/ Head(line) = Hash THEN props
        ELSE IF HasEquals(line)
        THEN SetItem(props, Strip(PartKey(line)), Strip(PartValue(line)))
        ELSE props

RECURSIVE ParseLines(_, _)
ParseLines(lines, props) ==
    IF lines = <<>> THEN props
    ELSE ParseLines(Tail(lines), ParseLine(props, Head(lines)))

\* ServerPropertiesManager.read when the file can be opened
ReadProps(file) ==
    IF ~file.exists THEN <<>> ELSE ParseLines(FileLines(file.text), <<>>)

\* "#Minecraft server properties\n#Generated by saba-chan on "
HeaderStart ==
    <<35, 77, 105, 110, 101, 99, 114, 97, 102, 116, 32, 115, 101, 114, 118,
      101, 114, 32, 112, 114, 111, 112, 101, 114, 116, 105, 101, 115, 10,
      35, 71, 101, 110, 101, 114, 97, 116, 101, 100, 32, 98, 121, 32, 115,
      97, 98, 97, 45, 99, 104, 97, 110, 32, 111, 110, 32>>

\* time.strftime('%c'), for instance "Wed Nov  4 05:00:00 2026"
TimeTexts ==
    {
    <<87, 101, 100, 32, 78, 111, 118, 32, 32, 52, 32, 48, 53, 58, 48, 48,
      58, 48, 48, 32, 50, 48, 50, 54>>}

Header(time) == HeaderStart \o time \o <<NewLine>>

\* the text write() puts in the file
WriteText(properties, time) == Header(time) \o PropLines(Sorted(properties))

\* the first loop of update(): the line kept, or replaced when its key is in
\* changes; updated_keys collects the keys replaced
RECURSIVE UpdateLines(_, _, _, _)
UpdateLines(lines, changes, out, updated_keys) ==
    IF lines = <<>> THEN [lines |-> out, updated_keys |-> updated_keys]
    ELSE LET line == Head(lines)
             stripped == Strip(line)
             key == Strip(PartKey(stripped))
         IN  IF stripped # <<>> /\ Head(stripped) # Hash /\ HasEquals(stripped)
                /\ HasKey(changes, key)
             THEN UpdateLines(Tail(lines), changes,
                              Append(out, PropLine(key, ValueOf(changes, key))),
                              updated_keys \cup {key})
             ELSE UpdateLines(Tail(lines), changes, Append(out, line), updated_keys)

\* the second loop of update(): the changes not yet in the file, appended
RECURSIVE AppendMissing(_, _, _)
AppendMissing(changes, updated_keys, out) ==
    IF changes = <<>> THEN out
    ELSE LET key == Head(changes)[1]
         IN  AppendMissing(Tail(changes), updated_keys,
                           IF key \in updated_keys THEN out
                           ELSE Append(out, PropLine(key, Head(changes)[2])))

\* f.writelines(lines)
RECURSIVE Concat(_)
Concat(lines) == IF lines = <<>> THEN <<>> ELSE Head(lines) \o Concat(Tail(lines))

\* the text update() puts in an existing file whose text it has read
UpdateText(text, changes) ==
    LET first == UpdateLines(FileLines(text), changes, <<>>, {})
    IN  Concat(AppendMissing(changes, first.updated_keys, first.lines))

(***************************************************************************)
(* DEFAULT_PROPERTIES = _load_default_properties().  The reference file    *)
(* server.properties next to the module is data outside the source: it is  *)
(* absent, or has the text below.                                          *)
(***************************************************************************)
EnableRcon ==
    <<101, 110, 97, 98, 108, 101, 45, 114, 99, 111, 110>>

PauseWhenEmpty ==
    <<112, 97, 117, 115, 101, 45, 119, 104, 101, 110, 45, 101, 109, 112,
      116, 121, 45, 115, 101, 99, 111, 110, 100, 115>>

\* "true" and "60"
TrueText == <<116, 114, 117, 101>>

SixtyText == <<54, 48>>

\* #Minecraft server properties / server-port=25565 / enable-rcon=false /
\* motd = A Minecraft Server
ReferenceText ==
    <<35, 77, 105, 110, 101, 99, 114, 97, 102, 116, 32, 115, 101, 114, 118,
      101, 114, 32, 112, 114, 111, 112, 101, 114, 116, 105, 101, 115, 10,
      115, 101, 114, 118, 101, 114, 45, 112, 111, 114, 116, 61, 50, 53, 53,
      54, 53, 10, 101, 110, 97, 98, 108, 101, 45, 114, 99, 111, 110, 61,
      102, 97, 108, 115, 101, 10, 109, 111, 116, 100, 32, 61, 32, 65, 32,
      77, 105, 110, 101, 99, 114, 97, 102, 116, 32, 83, 101, 114, 118, 101,
      114, 10>>

ReferenceFiles == {NoFile, FileOf(ReferenceText)}

LoadDefaultProperties(ref) ==
    LET defaults == ReadProps(ref)
        rcon == SetItem(defaults, EnableRcon, TrueText)
    IN  IF HasKey(rcon, PauseWhenEmpty) THEN rcon
        ELSE SetItem(rcon, PauseWhenEmpty, SixtyText)

(***************************************************************************)
(* The calls on a ServerPropertiesManager and their arguments.  Keys are   *)
(* the texts below, values every text of up to MaxText characters over a   *)
(* few characters, and some texts with a line break.                       *)
(***************************************************************************)
MaxText == 2

\* a, space, =, #
TextChars == {97, 32, Equals, Hash}

Texts == UNION {[1..k -> TextChars] : k \in 0..MaxText}

\* a, b, aa, " a", "a ", a=, =a, #a, a#, "", and a, line break, b
PropKeys ==
    {<<97>>, <<98>>, <<97, 97>>, <<32, 97>>, <<97, 32>>, <<97, 61>>, <<61, 97>>, <<35, 97>>, <<97, 35>>, <<>>, <<97, 10, 98>>}

\* a, line break, b=a; and a, line break
BrokenValues == {<<97, 10, 98, 61, 97>>, <<97, 10>>}

PropValues == Texts \cup BrokenValues

OneKeyDicts == {<<<<k, v>>>> : k \in PropKeys, v \in PropValues}

\* {b: a, a: aa}, {a: a, " a": b}, {a: b, aa: a}, {}
TwoKeyDicts ==
    {<<<<<<98>>, <<97>>>>, <<<<97>>, <<97, 97>>>>>>, <<<<<<97>>, <<97>>>>, <<<<32, 97>>, <<98>>>>>>,
     <<<<<<97>>, <<98>>>>, <<<<97, 97>>, <<97>>>>>>, <<>>}

\* {enable-rcon: a}, {enable-rcon: " a"}: a key the defaults have
DefaultKeyDicts == {<<<<EnableRcon, <<97>>>>>>, <<<<EnableRcon, <<32, 97>>>>>>}

Dicts == OneKeyDicts \cup TwoKeyDicts \cup DefaultKeyDicts

\* {a: b}, {b: aa}, {aa: " a"}, {b: a, a: aa}
SmallDicts ==
    {<<<<<<97>>, <<98>>>>>>, <<<<<<98>>, <<97, 97>>>>>>, <<<<<<97, 97>>, <<32, 97>>>>>>,
     <<<<<<98>>, <<97>>>>, <<<<97>>, <<97, 97>>>>>>}

\* files not written by the manager: a=a without a line break at the end;
\* "# c", "a = a ", "b=a"; a=a twice over; an empty file
PlacedTexts ==
    {<<97, 61, 97>>, <<35, 32, 99, 10, 97, 32, 61, 32, 97, 32, 10, 98, 61, 97, 10>>,
     <<97, 61, 97, 10, 97, 61, 98, 10>>, <<>>}

\* os.path.isfile(self.path)
Exists(file) == file.exists

\* the module is imported: DEFAULT_PROPERTIES = _load_default_properties()
MgrImport ==
    /\ fPc = "unloaded"
    /\ \E ref \in ReferenceFiles : fDefaults' = LoadDefaultProperties(ref)
    /\ fPc' = "fresh"
    /\ UNCHANGED <<fFile, fLast, fRead>>
    /\ UNCHANGED <<codecVars, rconVars, sessVars, pingVars, statusVars>>

\* the server, or its owner, has put a server.properties in the directory
MgrPlace ==
    /\ fPc = "fresh"
    /\ fLast.op = "none"
    /\ \E text \in PlacedTexts : fFile' = FileOf(text)
    /\ fLast' = [fLast EXCEPT !.op = "place"]
    /\ fRead' = [done |-> FALSE, err |-> FALSE, props |-> <<>>]
    /\ UNCHANGED <<fPc, fDefaults>>
    /\ UNCHANGED <<codecVars, rconVars, sessVars, pingVars, statusVars>>

\* the arguments tried: every dict on the first call, a few on the second
ArgDicts == IF fPc = "fresh" THEN Dicts ELSE SmallDicts

Called(op, arg, ret) ==
    /\ fLast' = [op |-> op, arg |-> arg, ret |-> ret, before |-> fFile]
    /\ fRead' = [done |-> FALSE, err |-> FALSE, props |-> <<>>]
    /\ fPc' = IF fPc = "fresh" THEN "once" ELSE "twice"

\* write(properties): the file replaced, True; or OSError from open, False
MgrWrite ==
    /\ fPc = "fresh"
    /\ \E properties \in ArgDicts :
          \/ /\ \E time \in TimeTexts : fFile' = FileOf(WriteText(properties, time))
             /\ Called("write", properties, TRUE)
          \/ /\ fFile' = fFile
             /\ Called("write", properties, FALSE)
    /\ UNCHANGED fDefaults
    /\ UNCHANGED <<codecVars, rconVars, sessVars, pingVars, statusVars>>

\* update(changes) when the file does not exist
UpdateNew(changes) ==
    LET merged == DictUpdate(fDefaults, changes)
    IN  \/ /\ \E time \in TimeTexts : fFile' = FileOf(WriteText(merged, time))
           /\ Called("update", changes, TRUE)
        \/ /\ fFile' = fFile
           /\ Called("update", changes, FALSE)

\* update(changes) when the file exists
UpdateExisting(changes) ==
    \/ /\ fFile' = FileOf(UpdateText(fFile.text, changes))
       /\ Called("update", changes, TRUE)
    \/ /\ fFile' = fFile
       /\ Called("update", changes, FALSE)

\* update(changes), as a first call or after a write()
MgrUpdate ==
    /\ fPc = "fresh" \/ (fPc = "once" /\ fLast.op = "write")
    /\ \E changes \in ArgDicts :
          IF Exists(fFile) THEN UpdateExisting(changes) ELSE UpdateNew(changes)
    /\ UNCHANGED fDefaults
    /\ UNCHANGED <<codecVars, rconVars, sessVars, pingVars, statusVars>>

\* read(): the dict parsed; an OSError from open leaves it empty
MgrRead ==
    /\ fPc \in {"once", "twice"}
    /\ ~fRead.done
    /\ \E oserror \in BOOLEAN :
          fRead' = [done |-> TRUE, err |-> oserror,
                    props |-> IF oserror THEN <<>> ELSE ReadProps(fFile)]
    /\ UNCHANGED <<fPc, fDefaults, fFile, fLast>>
    /\ UNCHANGED <<codecVars, rconVars, sessVars, pingVars, statusVars>>

PropsNext ==
    \/ MgrImport
    \/ MgrPlace
    \/ MgrWrite
    \/ MgrUpdate
    \/ MgrRead

(***************************************************************************)
(* Specifications.                                                         *)
(***************************************************************************)
InitCodec == InitWith({"accept"})

SpecCodec == InitCodec /\ [][CodecNext]_vars

InitConsole == InitWith({"accept", "reject"})

ConsoleNext == RconNext \/ SessNext

SpecConsole == InitConsole /\ [][ConsoleNext]_vars

InitPing == InitWith({"accept"})

SpecPing == InitPing /\ [][PingNext]_vars

InitProps == InitWith({"accept"})

SpecProps == InitProps /\ [][PropsNext]_vars

(***************************************************************************)
(* Properties of the codecs (checked under SpecCodec).                     *)
(***************************************************************************)

\* C1: for every 32-bit signed v, _read_varint(_encode_varint(v), 0) returns
\* the value v and an offset equal to the length of the encoding.
C1_VarintRoundTrip ==
    cOp = "roundtrip" =>
        /\ ~cOut.err
        /\ WFits(cOut.value)
        /\ WToInt(cOut.value) = cIn
        /\ cOut.offset = Len(EncodeVarint(cIn))

C1_Witness ==
    /\ cOp = "roundtrip"
    /\ cIn = MinInt32
    /\ cOut.offset = 5

\* C2 as stated: _encode_varint(-1) is 5 bytes, each 0xFF except the last,
\* which is 0x07.
C2_AsClaimed ==
    (cOp = "encode" /\ cIn = -1) => cOut = <<255, 255, 255, 255, 7>>

\* C2 amended: _encode_varint(-1) is 5 bytes, each 0xFF except the last,
\* which is 0x0F (the four bits 28..31 of 0xFFFFFFFF).
C2_EncodeMinusOne ==
    (cOp = "encode" /\ cIn = -1) => cOut = <<255, 255, 255, 255, 15>>

C2_Witness ==
    /\ cOp = "encode"
    /\ cIn = -1
    /\ Len(cOut) = 5

\* C3: the frame _make_packet builds is the 4-byte little-endian size, the
\* 4-byte little-endian request id, the 4-byte little-endian packet type, the
\* payload, then 0x00 0x00, with size = 4 + 4 + len(payload) + 2; the
\* authenticate frame for "secret" carries type 3 and the 6 bytes of "secret".
C3_FrameLayout ==
    /\ cOp = "make_packet" =>
          LET f == cOut
              n == Len(cIn.payload)
          IN  /\ Len(f) = 4 + 4 + 4 + n + 2
              /\ SubSeq(f, 1, 4) = <<4 + 4 + n + 2, 0, 0, 0>>
              /\ UnpackLE32(SubSeq(f, 5, 8)) = cIn.req_id
              /\ UnpackLE32(SubSeq(f, 9, 12)) = cIn.pkt_type
              /\ SubSeq(f, 13, 12 + n) = cIn.payload
              /\ SubSeq(f, 13 + n, 14 + n) = <<0, 0>>
              /\ (cIn.req_id = -1 => SubSeq(f, 5, 8) = <<255, 255, 255, 255>>)
              /\ (cIn.req_id = 258 => SubSeq(f, 5, 8) = <<2, 1, 0, 0>>)
    /\ (cOp = "auth_frame" /\ cIn.password = Secret) =>
          /\ SubSeq(cOut, 1, 4) = <<16, 0, 0, 0>>
          /\ UnpackLE32(SubSeq(cOut, 5, 8)) = cIn.req_id
          /\ SubSeq(cOut, 9, 18) = <<3, 0, 0, 0, 115, 101, 99, 114, 101, 116>>
          /\ SubSeq(cOut, 19, 20) = <<0, 0>>
          /\ Len(cOut) = 20
          /\ (cIn.req_id = 1 => SubSeq(cOut, 5, 8) = <<1, 0, 0, 0>>)

C3_Witness ==
    /\ cOp = "auth_frame"
    /\ cIn.password = Secret
    /\ cIn.req_id = 1
    /\ Len(cOut) = 20

(***************************************************************************)
(* Properties of rcon_command and the session object (SpecConsole).        *)
(***************************************************************************)
AuthFailure == Raised("ConnectionError", "RCON authentication failed")

\* the packet type of a frame the client sent
SentType(frame) == UnpackLE32(SubSeq(frame, 9, 12))

\* C4: when the frame read after the authenticate frame has request_id = -1,
\* the call reports an authentication failure, whatever the frame's packet
\* type and payload are.
C4_MinusOneIsAuthFailure ==
    (rAuthPkt.st = "frame" /\ rAuthPkt.req_id = -1) =>
        (rPc = "done" /\ rOut = AuthFailure)

C4_Witness ==
    /\ rAuthPkt.st = "frame"
    /\ rAuthPkt.req_id = -1
    /\ rAuthPkt.pkt_type = SERVERDATA_EXECCOMMAND
    /\ rAuthPkt.payload = <<79, 75, 255>>
    /\ rOut = AuthFailure

WireSize == UnpackLE32(SubSeq(rRx, rPktStart + 1, rPktStart + 4))

\* what _read_packet returns when every recv delivers all it asked for
OneChunkRead == DecodePacket(SubSeq(rRx, rPktStart + 5, rPktStart + 4 + WireSize))

\* the value the last _read_packet returned, once it has returned
AuthReadEnded ==
    rAuthPkt.st # "none" /\ rCmdPkt.st = "none" /\ Len(rSent) = 1

CmdReadEnded == rCmdPkt.st # "none"

LastPkt == IF CmdReadEnded THEN rCmdPkt ELSE rAuthPkt

\* C10: however the transport splits the bytes of a frame into chunks,
\* _read_packet returns the frame it returns when they arrive in one chunk and
\* consumes exactly 4 + size bytes; it reports end-of-stream only when the
\* stream ends before 4 + size bytes.
C10_Reassembly ==
    (AuthReadEnded \/ CmdReadEnded) =>
        LET avail == Len(rRx) - rPktStart
        IN  /\ LastPkt.st = "frame" =>
                  /\ avail >= 4
                  /\ avail >= 4 + WireSize
                  /\ LastPkt = OneChunkRead
                  /\ rRxPos = rPktStart + 4 + WireSize
            /\ LastPkt.st = "eof" => (avail < 4 \/ avail < 4 + WireSize)

C10_Witness ==
    /\ rPc = "done"
    /\ rCmdPkt.st = "frame"
    /\ rCmdPkt.payload = <<79, 75, 255>>
    /\ rRecvs = 3
    /\ rOut.kind = "return"


\* C11: _read_packet never returns a short buffer silently: when the peer
\* closes the stream before the 4-byte size field or before all `size`
\* further bytes have arrived, it returns the end-of-stream result (None);
\* a frame it returns is built from exactly the `size` bytes declared.
C11_NoShortFrame ==
    (AuthReadEnded \/ CmdReadEnded) =>
        LET avail == Len(rRx) - rPktStart
        IN  /\ (avail < 4 \/ avail < 4 + WireSize) => LastPkt = EofPkt
            /\ LastPkt.st = "frame" =>
                  /\ rSize = WireSize
                  /\ Len(rBuf) = rSize
                  /\ rBuf = SubSeq(rRx, rPktStart + 5, rPktStart + 4 + WireSize)

C11_Witness ==
    /\ rPc = "done"
    /\ rCmdPkt = EofPkt
    /\ rStage = "data"
    /\ Len(rBuf) >= 8
    /\ Len(rBuf) < rSize
    /\ rOut = Raised("ConnectionError", "RCON command returned no response")

(***************************************************************************)
(* Properties of the ping and of status() (checked under SpecPing).        *)
(***************************************************************************)
HasKeys(d, keys) == d.t = "obj" /\ keys \subseteq DOMAIN d.v

\* a status document with every field the record is built from
FullDoc(d) ==
    /\ HasKeys(d, {"players", "version", "description"})
    /\ HasKeys(d.v.players, {"online", "max", "sample"})
    /\ d.v.players.v.sample.t = "list"
    /\ \A i \in 1..Len(d.v.players.v.sample.v) :
          HasKeys(d.v.players.v.sample.v[i], {"name"})
    /\ HasKeys(d.v.version, {"name", "protocol"})
    /\ \/ d.v.description.t = "str"
       \/ HasKeys(d.v.description, {"text"})

Names(sample) == JList([i \in 1..Len(sample.v) |-> sample.v[i].v.name])

\* equality of two JSON values, which are equal only when of one type
JEq(a, b) == a.t = b.t /\ a = b

C7_AsClaimed == pPc = "done" => pRet.kind = "return"

\* C8: every ping call that created a socket has closed it by the time it
\* returns, on every exit path.
C8_AsClaimed == (pPc = "done" /\ pSock # "none") => pSock = "closed"

\* the outer length of the response is smaller than the number of bytes that
\* follow it on the wire
Undercounts(stream) ==
    LET pkt_len == ReadVarint(stream, 0)
    IN  /\ ~pkt_len.err
        /\ WLess(WAddInt(pkt_len.value, pkt_len.offset), WInt(Len(stream)))

\* C12: given a ping response whose outer length undercounts the bytes
\* actually sent, _parse_response returns None for the bytes accumulated (the
\* loop goes on accumulating) and does not throw.
C12_AsClaimed ==
    (pPc \in {"recv", "done"} /\ Undercounts(pRx) /\ pData # <<>>) =>
        ParseResponse(pData) = ParsedNone

(***************************************************************************)
(* Properties of the varint decoder on arbitrary bytes (under SpecCodec).  *)
(***************************************************************************)

\* the first five bytes all carry the continuation bit
FiveContinued(b) == Len(b) >= 5 /\ \A i \in 1..5 : b[i] >= 128

\* C13: _read_varint fails on every byte sequence whose varint has more than
\* 5 bytes, i.e. whose first 5 bytes all have the continuation bit set.
C13_AsClaimed == (cOp = "decode" /\ FiveContinued(cIn)) => cOut.err

\* C14: for every byte sequence b that _read_varint decodes, consuming k
\* bytes and yielding v, _encode_varint(v) equals the first k bytes of b.
C14_AsClaimed ==
    cOp = "reencode" => cOut.bytes = SubSeq(cIn, 1, cOut.read.offset)

(***************************************************************************)
(* Properties of ServerPropertiesManager (checked under SpecProps).        *)
(***************************************************************************)
\* read() was called after the last call and opened the file
ReadBack == fRead.done /\ ~fRead.err

\* props[key] == value
HasItem(props, key, value) == HasKey(props, key) /\ ValueOf(props, key) = value

\* C15: after write(P) has succeeded, exists() is true and read() returns a
\* mapping in which every key of P has the value P gives it.
C15_AsClaimed ==
    (fLast.op = "write" /\ fLast.ret /\ ReadBack) =>
        /\ Exists(fFile)
        /\ \A i \in 1..Len(fLast.arg) :
              HasItem(fRead.props, fLast.arg[i][1], fLast.arg[i][2])

\* C16: after update(C) on an existing file, read() gives every key of C the
\* value from C, and every key that was in the file and is not in C the value
\* it had before.
C16_AsClaimed ==
    (fLast.op = "update" /\ fLast.ret /\ Exists(fLast.before) /\ ReadBack) =>
        LET previous == ReadProps(fLast.before)
        IN  /\ \A i \in 1..Len(fLast.arg) :
                  HasItem(fRead.props, fLast.arg[i][1], fLast.arg[i][2])
            /\ \A i \in 1..Len(previous) :
                  ~HasKey(fLast.arg, previous[i][1]) =>
                      HasItem(fRead.props, previous[i][1], previous[i][2])

\* C17: after update(C) when the file does not exist, exists() is true and
\* read() contains every key of DEFAULT_PROPERTIES, with the value C gives the
\* key when C has it and the default otherwise.
C17_AsClaimed ==
    (fLast.op = "update" /\ fLast.ret /\ ~Exists(fLast.before) /\ ReadBack) =>
        /\ Exists(fFile)
        /\ \A i \in 1..Len(fDefaults) :
              LET key == fDefaults[i][1]
              IN  HasItem(fRead.props, key,
                          IF HasKey(fLast.arg, key) THEN ValueOf(fLast.arg, key)
                          ELSE fDefaults[i][2])

(***************************************************************************)
(* Properties of the session object (checked under SpecConsole).           *)
(***************************************************************************)
\* the effect of the last connect()/disconnect() of the log: connected after
\* a connect(), not connected after a disconnect() or when neither was called
RECURSIVE FlagAfter(_)
FlagAfter(log) ==
    IF log = <<>> THEN FALSE
    ELSE LET last == log[Len(log)]
         IN  IF last.op = "connect" THEN TRUE
             ELSE IF last.op = "disconnect" THEN FALSE
             ELSE FlagAfter(SubSeq(log, 1, Len(log) - 1))

\* C18: in any sequence of connect()/disconnect()/command() calls on the
\* session object, disconnect() returns normally, also when never connected
\* and when repeated; the second of two consecutive connect() (or
\* disconnect()) calls leaves the state the first left; and the connected
\* flag always equals the effect of the last connect/disconnect call.
C18_Idempotent ==
    /\ sConnected = FlagAfter(sLog)
    /\ \A i \in 1..Len(sLog) : sLog[i].connected = FlagAfter(SubSeq(sLog, 1, i))
    /\ \A i \in 1..(Len(sLog) - 1) :
          (sLog[i].op = sLog[i + 1].op /\ sLog[i].op \in {"connect", "disconnect"})
              => sLog[i + 1].connected = sLog[i].connected
    /\ sRet.op = "disconnect" => sRet.kind = "none"

C18_Witness ==
    /\ Len(sLog) = MaxCalls
    /\ sLog[1].op = "disconnect"
    /\ sLog[2].op = "disconnect"
    /\ sLog[3].op = "connect"
    /\ sLog[4].op = "connect"
    /\ \A i \in 1..4 : sLog[i].by = "caller"
    /\ sConnected

\* the commands of the log that send_command sent
SendCommandCalls ==
    {i \in 1..Len(sLog) : sLog[i].op = "command" /\ sLog[i].by = "send_command"}

\* send_command called connect() just before the command at i
Reconnected(i) == i > 1 /\ sLog[i - 1].op = "connect" /\ sLog[i - 1].by = "send_command"

\* the session was disconnected when the send_command of the command at i began
WasDisconnected(i) ==
    ~FlagAfter(SubSeq(sLog, 1, IF Reconnected(i) THEN i - 2 ELSE i - 1))

C20_AsClaimed ==
    (rPc = "done" /\ rOut.kind = "raise") => rOut.exc = "ConnectionError"

(***************************************************************************)
(* Further properties of the ping and of status() (under SpecPing).        *)
(***************************************************************************)
\* the fields of a complete record of a server that answered
OnlineFields ==
    {"online", "players_online", "players_max", "player_list", "version",
     "protocol", "motd"}

\* C21: whatever the ping gave, status() returns either a complete record
\* with online = true and all of players_online, players_max, player sample,
\* version name, protocol and motd, or a result with online = false.
C21_AsClaimed ==
    stPc = "done" =>
        /\ "online" \in DOMAIN stRet
        /\ stRet.online => OnlineFields \subseteq DOMAIN stRet

\* the four conditions on the buffer: a full outer length, that many further
\* bytes, packet id 0x00, an inner length L with at least L bytes after it
FourConditions(data) ==
    LET pkt_len == ReadVarint(data, 0)
        pkt_id == ReadVarint(data, pkt_len.offset)
        json_len == ReadVarint(data, pkt_id.offset)
    IN  /\ ~pkt_len.err
        /\ ~WLess(WInt(Len(data)), WAddInt(pkt_len.value, pkt_len.offset))
        /\ ~pkt_id.err
        /\ WIsZero(pkt_id.value)
        /\ ~json_len.err
        /\ ~WLess(json_len.value, WInt(0))
        /\ ~WLess(WInt(Len(data) - json_len.offset), json_len.value)

\* the L bytes after the inner length
Document(data) ==
    LET pkt_len == ReadVarint(data, 0)
        pkt_id == ReadVarint(data, pkt_len.offset)
        json_len == ReadVarint(data, pkt_id.offset)
    IN  SubSeq(data, json_len.offset + 1, json_len.offset + WToInt(json_len.value))

\* C22: _parse_response returns a decoded document only when the four
\* conditions hold for the buffer, and the document is decoded from the L
\* bytes after the inner length; with fewer than L bytes after the inner
\* length it returns none.
C22_AsClaimed ==
    (pPc \in {"recv", "done"} /\ pData # <<>>
        /\ ParseResponse(pData).kind = "value") =>
        /\ FourConditions(pData)
        /\ JEq(ParseResponse(pData).doc, JsonLoads(Document(pData)).value)

\* varint(len(H)) and H for the two hosts of the configs, byte by byte:
\* 0x00, varint(-1), the length of the host's UTF-8 bytes, those bytes, the
\* port as two big-endian bytes, 0x01
ExpectedHandshake(host, port) ==
    IF host = DefaultHost
    THEN <<19, 0, 255, 255, 255, 255, 15, 9, 49, 50, 55, 46, 48, 46, 48, 46, 49,
           port \div 256, port % 256, 1>>
    ELSE <<15, 0, 255, 255, 255, 255, 15, 5, 109, 99, 46, 195, 169,
           port \div 256, port % 256, 1>>

\* C23: on a successful connect the bytes a ping call writes are exactly, in
\* this order and before any read, varint(len(H)) ++ H and then 0x01 0x00,
\* where H = varint(0) ++ varint(-1) ++ varint(len(host bytes)) ++ host
\* UTF-8 bytes ++ port as 16-bit big-endian ++ varint(1); nothing else is
\* ever written.
C23_WireBytes ==
    pPc # "idle" =>
        LET handshake == ExpectedHandshake(pArgs.host, pArgs.port)
        IN  /\ pPc \in {"socket", "connect", "handshake"} => pSent = <<>>
            /\ pPc = "request" => pSent = handshake
            /\ pPc = "recv" => pSent = handshake \o <<1, 0>>
            /\ pPc = "done" => pSent \in {<<>>, handshake, handshake \o <<1, 0>>}
            /\ (pRxPos > 0 \/ pData # <<>>) => pSent = handshake \o <<1, 0>>

C23_Witness ==
    /\ pPc = "done"
    /\ pArgs.host = AccentHost
    /\ pRet.kind = "return"
    /\ pRet.doc.t = "obj"
    /\ pRxPos > 0
    /\ pSent = <<15, 0, 255, 255, 255, 255, 15, 5, 109, 99, 46, 195, 169, 99, 221,
                 1, 1, 0>>

(***************************************************************************)
(* Further properties of rcon_command (checked under SpecConsole).         *)
(***************************************************************************)
\* the request_id of a frame the client sent
SentId(frame) == UnpackLE32(SubSeq(frame, 5, 8))

\* Disconnected, Connecting, Authenticating (frame sent, response awaited),
\* Ready, Executing, Disconnected again
PcRank(pc) ==
    CASE pc = "idle" -> 0
      [] pc = "connect" -> 1
      [] pc = "send_auth" -> 2
      [] pc = "read_auth" -> 3
      [] pc = "send_cmd" -> 4
      [] pc = "read_cmd" -> 5
      [] OTHER -> 6

\* what a call has sent so far, and on what grounds
NoRetryState ==
    /\ Len(rSent) <= 2
    /\ Len(rSent) >= 1 => SentType(rSent[1]) = SERVERDATA_AUTH
    /\ Len(rSent) = 2 =>
          /\ SentType(rSent[2]) = SERVERDATA_EXECCOMMAND
          /\ rAuthPkt.st = "frame"
          /\ rAuthPkt.req_id # -1
    /\ rPc \in {"send_cmd", "read_cmd"} => (rAuthPkt.st = "frame" /\ rAuthPkt.req_id # -1)
    /\ rPc \in {"idle", "connect", "send_auth"} => rSent = <<>>
    /\ (rSock = "none") = (rPc = "idle")
    /\ (rSock = "closed") = (rPc = "done")

\* a step of a call: the call moves forward only, a socket is opened only by
\* the call's first step and a closed socket stays closed, and what was sent
\* stays sent
NoRetryStep ==
    /\ PcRank(rPc') >= PcRank(rPc)
    /\ (rSock' = "open" /\ rSock # "open") => (rSock = "none" /\ rPc = "idle")
    /\ rSock = "closed" => rSock' = "closed"
    /\ Len(rSent') >= Len(rSent)
    /\ SubSeq(rSent', 1, Len(rSent)) = rSent

\* C24: a direct-socket rcon_command call goes Disconnected -> Connecting ->
\* Authenticating -> Ready -> Executing -> Disconnected without a retry: it
\* opens at most one connection, sends at most one authenticate frame and at
\* most one execute-command frame, and sends the execute-command frame only
\* after it has read a complete authentication response whose request_id is
\* not -1.
C24_NoRetry == []NoRetryState /\ [][NoRetryStep]_vars

C24_Witness ==
    /\ rPc = "done"
    /\ rSock = "closed"
    /\ Len(rSent) = 2
    /\ rAuthPkt.st = "frame"
    /\ rAuthPkt.req_id = 0
    /\ rCmdPkt.st = "frame"
    /\ rOut.kind = "return"

\* the call has read both responses, each a frame with a request_id other
\* than -1, and one of them with a request_id that was not sent
LenientCase ==
    /\ rPc = "done"
    /\ rAuthPkt.st = "frame"
    /\ rAuthPkt.req_id # -1
    /\ rCmdPkt.st = "frame"
    /\ rCmdPkt.req_id # -1

\* C25: rcon_command accepts the authentication response and the command
\* response whatever their request_id is, provided it is not -1, also when it
\* differs from the identifier sent, and returns the command response's
\* payload as text.
C25_LenientIds ==
    /\ (rPc = "done" /\ rAuthPkt.st = "frame" /\ rAuthPkt.req_id # -1) =>
          rOut # AuthFailure
    /\ LenientCase => rOut = Returned(DecodeReplace(rCmdPkt.payload))

C25_Witness ==
    /\ LenientCase
    /\ rAuthPkt.req_id # SentId(rSent[1])
    /\ rCmdPkt.req_id # SentId(rSent[2])
    /\ rCmdPkt.payload = <<79, 75, 255>>
    /\ rOut = Returned(<<79, 75, 65533>>)

\* C26: whenever a response frame read by rcon_command, the authentication
\* response or the execute-command response, has request_id = -1, the call
\* fails with an authentication failure and returns no response text.
C26_AsClaimed ==
    (rPc = "done"
        /\ \/ (rAuthPkt.st = "frame" /\ rAuthPkt.req_id = -1)
           \/ (rCmdPkt.st = "frame" /\ rCmdPkt.req_id = -1)) =>
        rOut = AuthFailure

\* C27: every request_id rcon_command puts in an authenticate or an
\* execute-command frame is in 0..2147483647, so it never equals the -1
\* sentinel; it is drawn anew for each frame.
C27_RequestIds ==
    \A i \in 1..Len(rSent) :
        /\ SentId(rSent[i]) \in 0..MaxInt32
        /\ SentId(rSent[i]) # -1
        /\ rSent[i] = MakePacket(SentId(rSent[i]), SentType(rSent[i]),
                                 EncodeUtf8(IF i = 1 THEN rArgs.password
                                            ELSE rArgs.command))

C27_Witness ==
    /\ Len(rSent) = 2
    /\ SentId(rSent[1]) = MaxInt32
    /\ SentId(rSent[2]) = 1
    /\ SentType(rSent[1]) = SERVERDATA_AUTH
    /\ SentType(rSent[2]) = SERVERDATA_EXECCOMMAND

(***************************************************************************)
(* The ping against the segmentation of the stream (under SpecPing).       *)
(***************************************************************************)
\* what ping returns when the whole stream arrives in the first recv and
\* the peer then closes
OneChunkResult(stream) ==
    IF stream # <<>> /\ ParseResponse(stream).kind = "value"
    THEN ParseResponse(stream).doc
    ELSE JNull

\* a step of the read loop that ends the call by a return from the loop or
\* after it (both close the socket; an exception leaves it as it is)
LoopReturns ==
    /\ pPc = "recv"
    /\ pPc' = "done"
    /\ pRet'.kind = "return"
    /\ pSock' = "closed"

\* C28: whatever the split of the response stream into chunks, ping returns
\* the value it returns when the whole stream arrives in one chunk.
C28_AsClaimed == [][LoopReturns => JEq(pRet'.doc, OneChunkResult(pRx))]_vars

(***************************************************************************)
(* Termination of the ping (under SpecPingLive).  The peer of SpecPing     *)
(* sends a finite stream and closes.  A peer may also never close and go   *)
(* on sending: here it sends the byte 0x80, one per recv, which            *)
(* _read_varint takes as a VarInt that has not ended yet, however many of  *)
(* them there are.  What the loop does next depends only on data being     *)
(* such bytes and not on their number, so the model keeps the last         *)
(* JunkWindow of them at most and the endless run is a cycle.              *)
(***************************************************************************)
JunkWindow == 3

IsJunk(data) == \A i \in 1..Len(data) : data[i] = 128

Window(data) ==
    IF Len(data) <= JunkWindow THEN data ELSE SubSeq(data, 3, Len(data))

\* chunk = sock.recv(4096) gives one more 0x80 from a peer that has sent
\* nothing else; data += chunk; _parse_response(data) is None and the loop
\* goes round
PingRecvJunk ==
    /\ pPc = "recv"
    /\ pRxPos = Len(pRx)
    /\ IsJunk(pRx)
    /\ LET data == pData \o <<128>>
           parsed == ParseResponse(data)
       IN  /\ pData' = Window(data)
           /\ pRx' = Window(data)
           /\ pRxPos' = Len(Window(data))
           /\ IF parsed.kind = "value"
              THEN /\ pSock' = "closed"
                   /\ pRet' = PingReturned(parsed.doc)
                   /\ pPc' = "done"
              ELSE UNCHANGED <<pSock, pRet, pPc>>
    /\ UNCHANGED <<pArgs, pSent>>
    /\ UNCHANGED <<codecVars, rconVars, sessVars, statusVars, propsVars>>

\* the streams of the peers of SpecPingLive before they close or go on
\* with 0x80: nothing, one 0x80, a status packet around the document 1
LiveResponses == {<<>>, <<128>>, StatusPacket(0, 0, 0, <<49>>)}

\* sock.connect((host, port)) to one of these peers
PingConnectLive ==
    /\ pPc = "connect"
    /\ pArgs.port \in 0..MaxPort
    /\ \E stream \in LiveResponses : pRx' = stream
    /\ pPc' = "handshake"
    /\ UNCHANGED <<pSock, pArgs, pSent, pRxPos, pData, pRet>>
    /\ UNCHANGED <<codecVars, rconVars, sessVars, statusVars, propsVars>>

PingLiveNext ==
    \/ StatusCall
    \/ PingSocket
    \/ PingSocketError
    \/ PingConnectLive
    \/ PingConnectError
    \/ PingSendHandshake
    \/ PingSendRequest
    \/ PingSendError
    \/ PingRecv
    \/ PingRecvEof
    \/ PingRecvError
    \/ PingRecvJunk
    \/ PingFinalize
    \/ StatusReturn

\* every statement of ping that can be executed is executed in the end: each
\* recv completes, with data, with the end of the stream or with a timeout
SpecPingLive == InitPing /\ [][PingLiveNext]_vars /\ WF_vars(PingLiveNext)

InCall == pPc \in {"socket", "connect", "handshake", "request", "recv"}

\* C29: every ping call returns in the end, whatever the peer delivers,
\* provided each recv completes.
C29_AsClaimed == InCall ~> (pPc = "done")

(***************************************************************************)
(* The fields of the frame _read_packet returns (under SpecConsole).       *)
(***************************************************************************)
\* the bytes on the wire from the start of the last _read_packet
Avail == Len(rRx) - rPktStart

WireField(first, last) == SubSeq(rRx, rPktStart + first, rPktStart + last)

\* C30: when the declared size s is at least 10 and the s bytes arrive,
\* _read_packet returns the two little-endian 32-bit fields after the size
\* and, as payload, the s - 10 bytes between them and the two trailing bytes;
\* when s is below 8, the read gives no frame and rcon_command returns no
\* text.
C30_FrameFields ==
    ((AuthReadEnded \/ CmdReadEnded) /\ Avail >= 4) =>
        /\ (WireSize >= 10 /\ Avail >= 4 + WireSize) =>
              /\ LastPkt.st = "frame"
              /\ LastPkt.req_id = UnpackLE32(WireField(5, 8))
              /\ LastPkt.pkt_type = UnpackLE32(WireField(9, 12))
              /\ LastPkt.payload = WireField(13, 4 + WireSize - 2)
              /\ Len(LastPkt.payload) = WireSize - 10
        /\ WireSize < 8 =>
              /\ LastPkt.st # "frame"
              /\ rPc = "done"
              /\ rOut.kind # "return"

C30_Witness ==
    /\ rPc = "done"
    /\ rAuthPkt.st = "frame"
    /\ rAuthPkt.payload = <<79, 75, 255>>
    /\ rAuthPkt.pkt_type = SERVERDATA_EXECCOMMAND
    /\ CmdReadEnded
    /\ Avail >= 4
    /\ WireSize = 4
    /\ rCmdPkt.st = "struct.error"
    /\ rOut.kind = "raise"

=============================================================================
